---- MODULE Spec2Model ----
(***************************************************************************)
(* Model of print_service.py (bitrate16/peripage-python): the Repeat       *)
(* interval thread and the PrintService task queue / connection lifecycle. *)
(*                                                                         *)
(* Threads: callers (start, stop, add_*, clear_tasks) and one worker       *)
(* thread per Repeat.start().  Each worker step below is one statement (or *)
(* one device exchange) of Repeat.start.handler / service_handler, so that *)
(* callers and workers interleave as Python threads do.  The sleeps of the *)
(* code are the points between steps.                                      *)
(*                                                                         *)
(* The text-wrap buffer of peripage.Printer and ppa6.Printer (printASCII,  *)
(* printlnASCII, flushASCII) is modelled on one Printer object over a      *)
(* connected transport: each call is one action, computed as the code      *)
(* computes it, and the writes it hands to tellPrinter are appended to the *)
(* transport stream.  The command encoders and the image row chunking of   *)
(* both classes are modelled the same way.                                 *)
(***************************************************************************)
EXTENDS Integers, Sequences, FiniteSets, TLC

\* ---------------------------------------------------------------- bounds
\* start() calls modelled (each creates a Repeat, a ppa6.Printer, a thread)
MaxStarts == 2
\* tasks submitted over a run; a task is named by its submission number
MaxTasks == 2

\* row_characters of the printer type (32, 48, 144 or 154 in PrinterType),
\* scaled down
row_characters == 2
\* longest text passed to printASCII / printlnASCII
MaxText == 4
\* calls observed in a row on the transport stream
MaxCalls == 2
\* row_bytes of the printer type (48, 72, 216 or 231 in PrinterType), scaled
\* down
row_bytes == 2
\* rows of the tallest image printed: two full chunks and one row
MaxRows == 511
\* rows of the images whose rows take every length and content
MaxFreeRows == 2
\* longest text given to filter_ascii
MaxFilter == 3

Services == 1..MaxStarts
\* values of printer_type: the members of ppa6.PrinterType, and anything else
PrinterTypes == {"A6", "A6p", "unsupported"}
Threads == 1..(MaxStarts + 1)
Tasks == 1..MaxTasks

VARIABLES
    \* ---- PrintService fields
    service,           \* self.service / self.printer: index of the latest Repeat
                       \* and Printer (0 = None, before the first start())
    events,            \* self.events: sequence of task numbers
    service_failture,  \* self.service_failture
    ping_due,          \* time.time() > self.last_ping_timestamp + self.ping_interval
    guard_ping,        \* self.guard_ping_interval is not None
    \* ---- Repeat fields, per Repeat object
    running,           \* Repeat.running
    should_stop,       \* Repeat.should_stop
    \* ---- ppa6.Printer / transport, per Printer object
    conn,              \* Printer.isConnected(): sock exists and has a peer
    reset_done,        \* device side: reset received on the current connection
    \* ---- threads
    pc,                \* position of each worker thread
    rep,               \* the Repeat whose handler the thread runs
    live,              \* isConnected() returned True in this handler cycle
    pinged,            \* the guard battery query succeeded in this cycle
    ctask,             \* the task the thread is executing (0 = none)
    tprinter,          \* the printer handed to the executing task
    cpc,               \* position of the controlling caller inside stop()
    ret,               \* return value of the last add_* call
    \* ---- environment and observation
    faulty,            \* transport may fail now (timeouts, refused connects)
    submitted,         \* number of tasks submitted so far
    begun,             \* per task: its execution began 0, 1 or 2 = several times
    done,              \* per task: an execution of it returned without raising
    ever_connected,    \* some connect() has succeeded
    stopped,           \* per Repeat: stop() was called while it was self.service
    printerType,       \* Printer.printerType, the printer_type given to start()
    completed,         \* per thread: 1 once a task has returned in the current
                       \* call of service_handler, 0 before
    \* ---- text-wrap buffer of one Printer object
    cls,               \* the class of the object: "peripage" or "ppa6"
    print_buffer,      \* self.print_buffer (peripage) / self.printBuffer (ppa6)
    out,               \* byte strings the observed calls gave to tellPrinter
    pre,               \* print_buffer when the first observed call began
    ops,               \* names of the observed calls, in order
    arg,               \* text argument of the first observed call
    filtered           \* the text returned by the observed filter_ascii call

vars == << service, events, service_failture, ping_due, guard_ping, running,
           should_stop, conn, reset_done, pc, rep, live, pinged, ctask,
           tprinter, cpc, ret, faulty, submitted, begun, done, ever_connected,
           stopped, printerType, completed, cls,
           print_buffer, out, pre, ops, arg, filtered >>

Min(a, b) == IF a < b THEN a ELSE b

\* __init__ with the failure flag initialised to False
InitFlagClear ==
    /\ service = 0
    /\ events = << >>
    /\ service_failture = FALSE
    /\ ping_due = TRUE
    /\ guard_ping \in BOOLEAN
    /\ running = [r \in Services |-> FALSE]
    /\ should_stop = [r \in Services |-> TRUE]
    /\ conn = [p \in Services |-> FALSE]
    /\ reset_done = [p \in Services |-> FALSE]
    /\ pc = [t \in Threads |-> "none"]
    /\ rep = [t \in Threads |-> 0]
    /\ live = [t \in Threads |-> FALSE]
    /\ pinged = [t \in Threads |-> FALSE]
    /\ ctask = [t \in Threads |-> 0]
    /\ tprinter = [t \in Threads |-> 0]
    /\ cpc = "idle"
    /\ ret = "none"
    /\ faulty \in BOOLEAN
    /\ submitted = 0
    /\ begun = [k \in Tasks |-> 0]
    /\ done = [k \in Tasks |-> FALSE]
    /\ ever_connected = FALSE
    /\ stopped = [r \in Services |-> FALSE]
    /\ printerType = "A6p"
    /\ completed = [t \in Threads |-> 0]
    /\ cls = "ppa6"
    /\ print_buffer = << >>
    /\ out = << >>
    /\ pre = << >>
    /\ ops = << >>
    /\ arg = << >>
    /\ filtered = << >>

\* PrintService.__init__: empty queue, failure flag set, last_ping_timestamp 0
\* (so a ping is due), no service, no printer.  The Repeat and Printer slots
\* hold what their constructors set: running False, should_stop True, no
\* socket, an empty text buffer (PrintService uses ppa6.Printer; the printer
\* type is the one print-server passes, PRINTER_MODEL = PrinterType.A6p).
Init ==
    /\ service = 0
    /\ events = << >>
    /\ service_failture = TRUE
    /\ ping_due = TRUE
    /\ guard_ping \in BOOLEAN
    /\ running = [r \in Services |-> FALSE]
    /\ should_stop = [r \in Services |-> TRUE]
    /\ conn = [p \in Services |-> FALSE]
    /\ reset_done = [p \in Services |-> FALSE]
    /\ pc = [t \in Threads |-> "none"]
    /\ rep = [t \in Threads |-> 0]
    /\ live = [t \in Threads |-> FALSE]
    /\ pinged = [t \in Threads |-> FALSE]
    /\ ctask = [t \in Threads |-> 0]
    /\ tprinter = [t \in Threads |-> 0]
    /\ cpc = "idle"
    /\ ret = "none"
    /\ faulty \in BOOLEAN
    /\ submitted = 0
    /\ begun = [k \in Tasks |-> 0]
    /\ done = [k \in Tasks |-> FALSE]
    /\ ever_connected = FALSE
    /\ stopped = [r \in Services |-> FALSE]
    /\ printerType = "A6p"
    /\ completed = [t \in Threads |-> 0]
    /\ cls = "ppa6"
    /\ print_buffer = << >>
    /\ out = << >>
    /\ pre = << >>
    /\ ops = << >>
    /\ arg = << >>
    /\ filtered = << >>

\* ------------------------------------------------------------ callers
InHandlerPcs == {"top", "ping", "events", "guard", "exec", "task", "pop",
                 "except", "disc", "connect", "reset", "conc"}
FreeThreads == {t \in Threads : pc[t] = "none"}
FirstFree == CHOOSE x \in FreeThreads : \A y \in FreeThreads : x <= y

\* start() in which self.service.start() is called twice: the second call
\* finds running still False and creates a second thread
StartTwice ==
    /\ cpc = "idle"
    /\ service < MaxStarts
    /\ Cardinality(FreeThreads) >= 2
    /\ service' = service + 1
    /\ ping_due' = FALSE
    /\ events' = << >>
    /\ should_stop' = [should_stop EXCEPT ![service + 1] = FALSE]
    /\ LET t1 == FirstFree
           t2 == CHOOSE x \in FreeThreads \ {t1} :
                    \A y \in FreeThreads \ {t1} : x <= y
       IN /\ pc' = [pc EXCEPT ![t1] = "spawned", ![t2] = "spawned"]
          /\ rep' = [rep EXCEPT ![t1] = service + 1, ![t2] = service + 1]
    /\ UNCHANGED << service_failture, guard_ping, running, conn, reset_done,
                    live, pinged, ctask, tprinter, cpc, ret, faulty,
                    submitted, begun, done, ever_connected, stopped,
                    printerType, completed, cls, print_buffer, out, pre, ops,
                    arg, filtered >>

\* PrintService.start: no check for a previous instance; a new Printer
\* (no socket yet), last_ping_timestamp = now, a new empty queue, a new
\* Repeat, and Repeat.start: running is False on the fresh Repeat, so
\* should_stop is cleared and one thread is created.  The thread sets
\* running itself, later.
Start ==
    /\ cpc = "idle"
    /\ service < MaxStarts
    /\ FreeThreads # {}
    /\ service' = service + 1
    /\ ping_due' = FALSE
    /\ events' = << >>
    /\ should_stop' = [should_stop EXCEPT ![service + 1] = FALSE]
    /\ pc' = [pc EXCEPT ![FirstFree] = "spawned"]
    /\ rep' = [rep EXCEPT ![FirstFree] = service + 1]
    /\ UNCHANGED << service_failture, guard_ping, running, conn, reset_done,
                    live, pinged, ctask, tprinter, cpc, ret, faulty,
                    submitted, begun, done, ever_connected, stopped,
                    printerType, completed, cls, print_buffer, out, pre, ops,
                    arg, filtered >>

\* PrintService.stop, first statement: self.service.stop().  Repeat.stop
\* returns False without touching should_stop when the thread has not set
\* running yet.  (Before any start() self.service is None and stop() does
\* nothing: the AttributeError is swallowed.)
StopService ==
    /\ cpc = "idle"
    /\ service # 0
    /\ should_stop' = IF running[service]
                      THEN [should_stop EXCEPT ![service] = TRUE]
                      ELSE should_stop
    /\ stopped' = [stopped EXCEPT ![service] = TRUE]
    /\ cpc' = "disconnect"
    /\ UNCHANGED << service, events, service_failture, ping_due, guard_ping,
                    running, conn, reset_done, pc, rep, live, pinged, ctask,
                    tprinter, ret, faulty, submitted, begun, done,
                    ever_connected, printerType, completed, cls,
                    print_buffer, out, pre, ops, arg, filtered >>

\* PrintService.stop, second statement: self.printer.disconnect(), from the
\* caller's thread, whatever the worker is doing.
StopDisconnect ==
    /\ cpc = "disconnect"
    /\ conn' = [conn EXCEPT ![service] = FALSE]
    /\ reset_done' = [reset_done EXCEPT ![service] = FALSE]
    /\ cpc' = "idle"
    /\ UNCHANGED << service, events, service_failture, ping_due, guard_ping,
                    running, should_stop, pc, rep, live, pinged, ctask,
                    tprinter, ret, faulty, submitted, begun, done,
                    ever_connected, stopped, printerType, completed, cls,
                    print_buffer, out, pre, ops, arg, filtered >>

\* the task is inserted at the head of the list instead of appended
EventsPrepend ==
    /\ submitted < MaxTasks
    /\ submitted' = submitted + 1
    /\ events' = << submitted + 1 >> \o events
    /\ ret' = "True"

\* self.events.append(task); return True
EventsAppend ==
    /\ submitted < MaxTasks
    /\ submitted' = submitted + 1
    /\ events' = Append(events, submitted + 1)
    /\ ret' = "True"

\* return False, nothing appended
Reject ==
    /\ ret' = "False"
    /\ UNCHANGED << events, submitted >>

add_print_handler == EventsAppend /\ UNCHANGED << service, service_failture,
                                                  ping_due, guard_ping,
                                                  running, should_stop, conn,
                                                  reset_done, pc, rep, live,
                                                  pinged, ctask, tprinter,
                                                  cpc, faulty, begun, done,
                                                  ever_connected, stopped,
                                                  printerType, completed,
                                                  cls, print_buffer, out,
                                                  pre, ops, arg, filtered >>

add_print_ascii == EventsAppend /\ UNCHANGED << service, service_failture,
                                                ping_due, guard_ping,
                                                running, should_stop, conn,
                                                reset_done, pc, rep, live,
                                                pinged, ctask, tprinter, cpc,
                                                faulty, begun, done,
                                                ever_connected, stopped,
                                                printerType, completed, cls,
                                                print_buffer, out, pre, ops,
                                                arg, filtered >>

add_print_image == EventsAppend /\ UNCHANGED << service, service_failture,
                                                ping_due, guard_ping,
                                                running, should_stop, conn,
                                                reset_done, pc, rep, live,
                                                pinged, ctask, tprinter, cpc,
                                                faulty, begun, done,
                                                ever_connected, stopped,
                                                printerType, completed, cls,
                                                print_buffer, out, pre, ops,
                                                arg, filtered >>

add_print_flush_ascii == EventsAppend /\ UNCHANGED << service,
                                                      service_failture,
                                                      ping_due, guard_ping,
                                                      running, should_stop,
                                                      conn, reset_done, pc,
                                                      rep, live, pinged,
                                                      ctask, tprinter, cpc,
                                                      faulty, begun, done,
                                                      ever_connected,
                                                      stopped, printerType,
                                                      completed, cls,
                                                      print_buffer, out, pre,
                                                      ops, arg, filtered >>

\* appends only if break_size is not None and > 0
add_print_break ==
    /\ \E break_size \in {0, 1} : IF break_size > 0 THEN EventsAppend ELSE Reject
    /\ UNCHANGED << service, service_failture, ping_due, guard_ping, running,
                    should_stop, conn, reset_done, pc, rep, live, pinged,
                    ctask, tprinter, cpc, faulty, begun, done,
                    ever_connected, stopped, printerType, completed, cls,
                    print_buffer, out, pre, ops, arg, filtered >>

\* appends only if concentration is not None
add_print_concentration ==
    /\ \E concentration \in {"None", "1"} :
          IF concentration # "None" THEN EventsAppend ELSE Reject
    /\ UNCHANGED << service, service_failture, ping_due, guard_ping, running,
                    should_stop, conn, reset_done, pc, rep, live, pinged,
                    ctask, tprinter, cpc, faulty, begun, done,
                    ever_connected, stopped, printerType, completed, cls,
                    print_buffer, out, pre, ops, arg, filtered >>

\* if self.events: self.events.clear()
clear_tasks ==
    /\ events # << >>
    /\ events' = << >>
    /\ UNCHANGED << service, service_failture, ping_due, guard_ping, running,
                    should_stop, conn, reset_done, pc, rep, live, pinged,
                    ctask, tprinter, cpc, ret, faulty, submitted, begun,
                    done, ever_connected, stopped, printerType, completed,
                    cls, print_buffer, out, pre, ops, arg, filtered >>

\* len(self.events) if self.events else 0
get_task_count == Len(events)

is_service_failture == service_failture

\* ------------------------------------------------------------ transport
\* A send or a send/receive on printer p returns only on a connected socket;
\* it raises on a socket that is gone, and may raise (timeout) on a live one.
SendOk(p) == conn[p]
SendRaises(p) == ~conn[p] \/ faulty

\* ------------------------------------------------------------ worker thread
\* Repeat.start.handler, first statement: self.running = True
WRun(t) ==
    /\ pc[t] = "spawned"
    /\ running' = [running EXCEPT ![rep[t]] = TRUE]
    /\ pc' = [pc EXCEPT ![t] = "loop"]
    /\ UNCHANGED << service, events, service_failture, ping_due, guard_ping,
                    should_stop, conn, reset_done, rep, live, pinged, ctask,
                    tprinter, cpc, ret, faulty, submitted, begun, done,
                    ever_connected, stopped, printerType, completed, cls,
                    print_buffer, out, pre, ops, arg, filtered >>

\* while not self.should_stop: self.handler() ... ; else self.running = False
WLoop(t) ==
    /\ pc[t] = "loop"
    /\ IF should_stop[rep[t]]
       THEN /\ running' = [running EXCEPT ![rep[t]] = FALSE]
            /\ pc' = [pc EXCEPT ![t] = "exited"]
       ELSE /\ pc' = [pc EXCEPT ![t] = "top"]
            /\ UNCHANGED running
    /\ UNCHANGED << service, events, service_failture, ping_due, guard_ping,
                    should_stop, conn, reset_done, rep, live, pinged, ctask,
                    tprinter, cpc, ret, faulty, submitted, begun, done,
                    ever_connected, stopped, printerType, completed, cls,
                    print_buffer, out, pre, ops, arg, filtered >>

\* service_handler without the isConnected() checks
WTopNoCheck(t) ==
    /\ pc[t] = "top"
    /\ pc' = [pc EXCEPT ![t] = IF ~running[service] THEN "sleep" ELSE "ping"]
    /\ completed' = [completed EXCEPT ![t] = IF pc'[t] = "sleep" THEN 0 ELSE @]
    /\ UNCHANGED << service, events, service_failture, ping_due, guard_ping,
                    running, should_stop, conn, reset_done, rep, live,
                    pinged, ctask, tprinter, cpc, ret, faulty, submitted,
                    begun, done, ever_connected, stopped, printerType, cls,
                    print_buffer, out, pre, ops, arg, filtered >>

\* service_handler: while self.service.is_running(), then the liveness check
\* (isConnected, sock.listen ignored, isConnected): not connected raises.
WTop(t) ==
    /\ pc[t] = "top"
    /\ IF ~running[service]
       THEN /\ pc' = [pc EXCEPT ![t] = "sleep"]
            /\ UNCHANGED live
       ELSE IF conn[service]
            THEN /\ pc' = [pc EXCEPT ![t] = "ping"]
                 /\ live' = [live EXCEPT ![t] = TRUE]
            ELSE /\ pc' = [pc EXCEPT ![t] = "except"]
                 /\ UNCHANGED live
    /\ completed' = [completed EXCEPT ![t] = IF pc'[t] = "sleep" THEN 0 ELSE @]
    /\ UNCHANGED << service, events, service_failture, ping_due, guard_ping,
                    running, should_stop, conn, reset_done, rep, pinged,
                    ctask, tprinter, cpc, ret, faulty, submitted, begun,
                    done, ever_connected, stopped, printerType, cls,
                    print_buffer, out, pre, ops, arg, filtered >>

\* if time.time() > last_ping_timestamp + ping_interval:
\*     str(getDeviceBattery()); last_ping_timestamp = time.time()
WPing(t) ==
    /\ pc[t] = "ping"
    /\ IF ping_due
       THEN \/ /\ SendOk(service)
               /\ ping_due' = FALSE
               /\ pc' = [pc EXCEPT ![t] = "events"]
            \/ /\ SendRaises(service)
               /\ pc' = [pc EXCEPT ![t] = "except"]
               /\ UNCHANGED ping_due
       ELSE /\ pc' = [pc EXCEPT ![t] = "events"]
            /\ UNCHANGED ping_due
    /\ UNCHANGED << service, events, service_failture, guard_ping, running,
                    should_stop, conn, reset_done, rep, live, pinged, ctask,
                    tprinter, cpc, ret, faulty, submitted, begun, done,
                    ever_connected, stopped, printerType, completed, cls,
                    print_buffer, out, pre, ops, arg, filtered >>

\* the guard keep-alive sent only when the ping interval has elapsed
WEventsGuardIfDue(t) ==
    /\ pc[t] = "events"
    /\ pc' = [pc EXCEPT ![t] =
                IF Len(events) > 0
                THEN (IF guard_ping /\ ping_due THEN "guard" ELSE "exec")
                ELSE "sleep"]
    /\ live' = [live EXCEPT ![t] = live[t] /\ Len(events) > 0]
    /\ completed' = [completed EXCEPT ![t] = IF pc'[t] = "sleep" THEN 0 ELSE @]
    /\ UNCHANGED << service, events, service_failture, ping_due, guard_ping,
                    running, should_stop, conn, reset_done, rep, pinged,
                    ctask, tprinter, cpc, ret, faulty, submitted, begun,
                    done, ever_connected, stopped, printerType, cls,
                    print_buffer, out, pre, ops, arg, filtered >>

\* if len(self.events): (guard ping, task, pop) ; return
WEvents(t) ==
    /\ pc[t] = "events"
    /\ pc' = [pc EXCEPT ![t] = IF Len(events) > 0
                                 THEN (IF guard_ping THEN "guard" ELSE "exec")
                                 ELSE "sleep"]
    /\ live' = [live EXCEPT ![t] = live[t] /\ Len(events) > 0]
    /\ completed' = [completed EXCEPT ![t] = IF pc'[t] = "sleep" THEN 0 ELSE @]
    /\ UNCHANGED << service, events, service_failture, ping_due, guard_ping,
                    running, should_stop, conn, reset_done, rep, pinged,
                    ctask, tprinter, cpc, ret, faulty, submitted, begun,
                    done, ever_connected, stopped, printerType, cls,
                    print_buffer, out, pre, ops, arg, filtered >>

\* str(getDeviceBattery()); last_ping_timestamp = time.time(); sleep(guard)
WGuard(t) ==
    /\ pc[t] = "guard"
    /\ \/ /\ SendOk(service)
          /\ ping_due' = FALSE
          /\ pinged' = [pinged EXCEPT ![t] = TRUE]
          /\ pc' = [pc EXCEPT ![t] = "exec"]
       \/ /\ SendRaises(service)
          /\ pc' = [pc EXCEPT ![t] = "except"]
          /\ UNCHANGED << ping_due, pinged >>
    /\ UNCHANGED << service, events, service_failture, guard_ping, running,
                    should_stop, conn, reset_done, rep, live, ctask,
                    tprinter, cpc, ret, faulty, submitted, begun, done,
                    ever_connected, stopped, printerType, completed, cls,
                    print_buffer, out, pre, ops, arg, filtered >>

\* self.events[0](self.printer): the head task is looked up and called
\* with the current printer (IndexError on a list emptied meanwhile)
WExec(t) ==
    /\ pc[t] = "exec"
    /\ IF events = << >>
       THEN /\ pc' = [pc EXCEPT ![t] = "except"]
            /\ UNCHANGED << ctask, tprinter, begun >>
       ELSE /\ pc' = [pc EXCEPT ![t] = "task"]
            /\ ctask' = [ctask EXCEPT ![t] = Head(events)]
            /\ tprinter' = [tprinter EXCEPT ![t] = service]
            /\ begun' = [begun EXCEPT ![Head(events)] = Min(@ + 1, 2)]
    /\ UNCHANGED << service, events, service_failture, ping_due, guard_ping,
                    running, should_stop, conn, reset_done, rep, live,
                    pinged, cpc, ret, faulty, submitted, done,
                    ever_connected, stopped, printerType, completed, cls,
                    print_buffer, out, pre, ops, arg, filtered >>

\* the body of the task: an opaque handler that writes to the printer it was
\* given (io) or only touches the printer object; it returns or raises.  On a
\* Printer of an unsupported type the task raises before it sends anything:
\* getRowWidth / getRowBytes / getRowCharacters raise ValueError.
WTask(t) ==
    /\ pc[t] = "task"
    /\ \E io \in BOOLEAN :
         \/ /\ printerType # "unsupported"
            /\ io => SendOk(tprinter[t])
            /\ pc' = [pc EXCEPT ![t] = "pop"]
            /\ done' = [done EXCEPT ![ctask[t]] = TRUE]
            /\ completed' = [completed EXCEPT ![t] = 1]
         \/ /\ \/ IF io THEN SendRaises(tprinter[t]) ELSE faulty
               \/ printerType = "unsupported"
            /\ pc' = [pc EXCEPT ![t] = "except"]
            /\ UNCHANGED << done, completed >>
    /\ UNCHANGED << service, events, service_failture, ping_due, guard_ping,
                    running, should_stop, conn, reset_done, rep, live,
                    pinged, ctask, tprinter, cpc, ret, faulty, submitted,
                    begun, ever_connected, stopped, printerType, cls,
                    print_buffer, out, pre, ops, arg, filtered >>

\* the handler returns without self.events.pop(0)
WPopKeep(t) ==
    /\ pc[t] = "pop"
    /\ pc' = [pc EXCEPT ![t] = "sleep"]
    /\ live' = [live EXCEPT ![t] = FALSE]
    /\ pinged' = [pinged EXCEPT ![t] = FALSE]
    /\ ctask' = [ctask EXCEPT ![t] = 0]
    /\ tprinter' = [tprinter EXCEPT ![t] = 0]
    /\ completed' = [completed EXCEPT ![t] = IF pc'[t] = "sleep" THEN 0 ELSE @]
    /\ UNCHANGED << service, events, service_failture, ping_due, guard_ping,
                    running, should_stop, conn, reset_done, rep, cpc, ret,
                    faulty, submitted, begun, done, ever_connected, stopped,
                    printerType, cls, print_buffer, out, pre, ops, arg,
                    filtered >>

\* self.events.pop(0) (IndexError on an empty list); return
WPop(t) ==
    /\ pc[t] = "pop"
    /\ IF events = << >>
       THEN /\ pc' = [pc EXCEPT ![t] = "except"]
            /\ UNCHANGED events
       ELSE /\ events' = Tail(events)
            /\ pc' = [pc EXCEPT ![t] = "sleep"]
    /\ live' = [live EXCEPT ![t] = FALSE]
    /\ pinged' = [pinged EXCEPT ![t] = FALSE]
    /\ ctask' = [ctask EXCEPT ![t] = 0]
    /\ tprinter' = [tprinter EXCEPT ![t] = 0]
    /\ completed' = [completed EXCEPT ![t] = IF pc'[t] = "sleep" THEN 0 ELSE @]
    /\ UNCHANGED << service, service_failture, ping_due, guard_ping, running,
                    should_stop, conn, reset_done, rep, cpc, ret, faulty,
                    submitted, begun, done, ever_connected, stopped,
                    printerType, cls, print_buffer, out, pre, ops, arg,
                    filtered >>

\* the except branch gives up and returns instead of reconnecting
WExceptReturn(t) ==
    /\ pc[t] = "except"
    /\ service_failture' = TRUE
    /\ pc' = [pc EXCEPT ![t] = "sleep"]
    /\ live' = [live EXCEPT ![t] = FALSE]
    /\ pinged' = [pinged EXCEPT ![t] = FALSE]
    /\ ctask' = [ctask EXCEPT ![t] = 0]
    /\ tprinter' = [tprinter EXCEPT ![t] = 0]
    /\ completed' = [completed EXCEPT ![t] = IF pc'[t] = "sleep" THEN 0 ELSE @]
    /\ UNCHANGED << service, events, ping_due, guard_ping, running,
                    should_stop, conn, reset_done, rep, cpc, ret, faulty,
                    submitted, begun, done, ever_connected, stopped,
                    printerType, cls, print_buffer, out, pre, ops, arg,
                    filtered >>

\* the exception is not caught: it ends the thread, running stays True
WExceptDie(t) ==
    /\ pc[t] = "except"
    /\ service_failture' = TRUE
    /\ pc' = [pc EXCEPT ![t] = "exited"]
    /\ live' = [live EXCEPT ![t] = FALSE]
    /\ pinged' = [pinged EXCEPT ![t] = FALSE]
    /\ ctask' = [ctask EXCEPT ![t] = 0]
    /\ tprinter' = [tprinter EXCEPT ![t] = 0]
    /\ UNCHANGED << service, events, ping_due, guard_ping, running,
                    should_stop, conn, reset_done, rep, cpc, ret, faulty,
                    submitted, begun, done, ever_connected, stopped,
                    printerType, completed, cls, print_buffer, out, pre, ops,
                    arg, filtered >>

\* except: self.service_failture = True (then the offline sleep, skipped on
\* the first failure of a handler call)
WExcept(t) ==
    /\ pc[t] = "except"
    /\ service_failture' = TRUE
    /\ pc' = [pc EXCEPT ![t] = "disc"]
    /\ live' = [live EXCEPT ![t] = FALSE]
    /\ pinged' = [pinged EXCEPT ![t] = FALSE]
    /\ ctask' = [ctask EXCEPT ![t] = 0]
    /\ tprinter' = [tprinter EXCEPT ![t] = 0]
    /\ UNCHANGED << service, events, ping_due, guard_ping, running,
                    should_stop, conn, reset_done, rep, cpc, ret, faulty,
                    submitted, begun, done, ever_connected, stopped,
                    printerType, completed, cls, print_buffer, out, pre, ops,
                    arg, filtered >>

\* if self.printer.isConnected(): self.printer.disconnect()
WDisc(t) ==
    /\ pc[t] = "disc"
    /\ conn' = [conn EXCEPT ![service] = FALSE]
    /\ reset_done' = [reset_done EXCEPT ![service] = FALSE]
    /\ pc' = [pc EXCEPT ![t] = "connect"]
    /\ UNCHANGED << service, events, service_failture, ping_due, guard_ping,
                    running, should_stop, rep, live, pinged, ctask, tprinter,
                    cpc, ret, faulty, submitted, begun, done, ever_connected,
                    stopped, printerType, completed, cls, print_buffer, out,
                    pre, ops, arg, filtered >>

\* self.printer.connect(): a new socket; a failure is swallowed and the
\* while loop goes round
WConnect(t) ==
    /\ pc[t] = "connect"
    /\ \/ /\ conn' = [conn EXCEPT ![service] = TRUE]
          /\ ever_connected' = TRUE
          /\ pc' = [pc EXCEPT ![t] = "reset"]
       \/ /\ faulty
          /\ conn' = [conn EXCEPT ![service] = FALSE]
          /\ pc' = [pc EXCEPT ![t] = "top"]
          /\ UNCHANGED ever_connected
    /\ reset_done' = [reset_done EXCEPT ![service] = FALSE]
    /\ UNCHANGED << service, events, service_failture, ping_due, guard_ping,
                    running, should_stop, rep, live, pinged, ctask, tprinter,
                    cpc, ret, faulty, submitted, begun, done, stopped,
                    printerType, completed, cls, print_buffer, out, pre, ops,
                    arg, filtered >>

\* self.printer.reset(); a failure is swallowed and the while loop goes round
WReset(t) ==
    /\ pc[t] = "reset"
    /\ \/ /\ SendOk(service)
          /\ reset_done' = [reset_done EXCEPT ![service] = TRUE]
          /\ pc' = [pc EXCEPT ![t] = "conc"]
       \/ /\ SendRaises(service)
          /\ pc' = [pc EXCEPT ![t] = "top"]
          /\ UNCHANGED reset_done
    /\ UNCHANGED << service, events, service_failture, ping_due, guard_ping,
                    running, should_stop, conn, rep, live, pinged, ctask,
                    tprinter, cpc, ret, faulty, submitted, begun, done,
                    ever_connected, stopped, printerType, completed, cls,
                    print_buffer, out, pre, ops, arg, filtered >>

\* self.printer.setConcentration(...); sleep(startup_interval);
\* self.last_ping_timestamp = time.time(); self.service_failture = False
WConc(t) ==
    /\ pc[t] = "conc"
    /\ \/ /\ SendOk(service)
          /\ ping_due' = FALSE
          /\ service_failture' = FALSE
       \/ /\ SendRaises(service)
          /\ UNCHANGED << ping_due, service_failture >>
    /\ pc' = [pc EXCEPT ![t] = "top"]
    /\ UNCHANGED << service, events, guard_ping, running, should_stop, conn,
                    reset_done, rep, live, pinged, ctask, tprinter, cpc, ret,
                    faulty, submitted, begun, done, ever_connected, stopped,
                    printerType, completed, cls, print_buffer, out, pre, ops,
                    arg, filtered >>

\* time.sleep(self.interval) in Repeat's loop
WSleep(t) ==
    /\ pc[t] = "sleep"
    /\ pc' = [pc EXCEPT ![t] = "loop"]
    /\ UNCHANGED << service, events, service_failture, ping_due, guard_ping,
                    running, should_stop, conn, reset_done, rep, live,
                    pinged, ctask, tprinter, cpc, ret, faulty, submitted,
                    begun, done, ever_connected, stopped, printerType,
                    completed, cls, print_buffer, out, pre, ops, arg,
                    filtered >>

Worker(t) ==
    \/ WRun(t) \/ WLoop(t) \/ WTop(t) \/ WPing(t) \/ WEvents(t) \/ WGuard(t)
    \/ WExec(t) \/ WTask(t) \/ WPop(t) \/ WExcept(t) \/ WDisc(t)
    \/ WConnect(t) \/ WReset(t) \/ WConc(t) \/ WSleep(t)

\* ------------------------------------------------------------ environment
\* time passes: ping_interval has elapsed since last_ping_timestamp
Tick ==
    /\ ~ping_due
    /\ ping_due' = TRUE
    /\ UNCHANGED << service, events, service_failture, guard_ping, running,
                    should_stop, conn, reset_done, pc, rep, live, pinged,
                    ctask, tprinter, cpc, ret, faulty, submitted, begun,
                    done, ever_connected, stopped, printerType, completed,
                    cls, print_buffer, out, pre, ops, arg, filtered >>

\* the peer goes away: getpeername() now fails on that socket
LinkDrop ==
    /\ faulty
    /\ \E p \in Services :
         /\ conn[p]
         /\ conn' = [conn EXCEPT ![p] = FALSE]
         /\ reset_done' = [reset_done EXCEPT ![p] = FALSE]
    /\ UNCHANGED << service, events, service_failture, ping_due, guard_ping,
                    running, should_stop, pc, rep, live, pinged, ctask,
                    tprinter, cpc, ret, faulty, submitted, begun, done,
                    ever_connected, stopped, printerType, completed, cls,
                    print_buffer, out, pre, ops, arg, filtered >>

\* the transport becomes unreliable, or reliable again
LinkChange ==
    /\ faulty' = ~faulty
    /\ UNCHANGED << service, events, service_failture, ping_due, guard_ping,
                    running, should_stop, conn, reset_done, pc, rep, live,
                    pinged, ctask, tprinter, cpc, ret, submitted, begun,
                    done, ever_connected, stopped, printerType, completed,
                    cls, print_buffer, out, pre, ops, arg, filtered >>


\* ------------------------------------------------------------ text-wrap buffer
\* Characters are their code points: line feed, space, two printable
\* letters, and a control character (tab) that the ASCII filter rejects.
LF == 10
Chars == {LF, 32, 97, 98, 9}
Texts == UNION {[1..n -> Chars] : n \in 0..MaxText}

\* self.printer_type.spec.row_characters
getRowCharacters == row_characters

\* filter_ascii that lets the DEL character through
filter_ascii_del(text) ==
    SelectSeq(text, LAMBDA i : (31 < i \/ i = 10) /\ i <= 127)

\* Printer.filter_ascii: keep i if (31 < ord(i) or ord(i) == 10) and ord(i) < 127
filter_ascii(text) ==
    SelectSeq(text, LAMBDA i : (31 < i \/ i = 10) /\ i < 127)

\* len(s.strip()) == 0 on filtered text: only spaces and line feeds
StripEmpty(s) == \A i \in 1..Len(s) : s[i] \in {LF, 32}

\* s.split('\n')
RECURSIVE Split(_)
Split(s) ==
    IF \A i \in 1..Len(s) : s[i] # LF
    THEN << s >>
    ELSE LET i == CHOOSE k \in 1..Len(s) :
                     s[k] = LF /\ \A j \in 1..(k - 1) : s[j] # LF
         IN << SubSeq(s, 1, i - 1) >> \o Split(SubSeq(s, i + 1, Len(s)))

\* [ l[i:i+n] for i in range(0, len(l), n) ]
Parts(l, n) ==
    [k \in 1..((Len(l) + n - 1) \div n) |->
        SubSeq(l, (k - 1) * n + 1, Min(k * n, Len(l)))]

\* the request of printBreak(size): 1b 4a and min(0xff, max(0x01, size))
BreakRequest(size) ==
    << 27, 74, IF size < 1 THEN 1 ELSE IF size > 255 THEN 255 ELSE size >>

\* the state a call works on: the buffer and the writes made so far
Sent(st, w) == [buf |-> st.buf, out |-> Append(st.out, w)]
Keep(st, b) == [buf |-> b, out |-> st.out]

\* tellPrinter(print_buffer); tellPrinter(b'\n'); print_buffer = ''
FlushBuffer(st) == Keep(Sent(Sent(st, st.buf), << LF >>), << >>)

\* every piece is written at once, full or not
WrapPartSend(st, p) == Sent(Sent(st, p), << LF >>)

\* every piece is kept in the buffer, full or not
WrapPartKeep(st, p) == Keep(st, p)

\* peripage printASCII, one piece of a wrapped line: a full row is written
\* with a line feed, a partial one becomes the buffer
WrapPart(st, p) ==
    IF Len(p) = getRowCharacters
    THEN Sent(Sent(st, p), << LF >>)
    ELSE Keep(st, p)

RECURSIVE WrapLine(_, _, _)
WrapLine(st, parts, j) ==
    IF j > Len(parts) THEN st
    ELSE WrapLine(WrapPart(st, parts[j]), parts, j + 1)

\* peripage printASCII, the body of 'for l in lines'
IterLine(st, l) ==
    IF Len(st.buf) # 0
    THEN FlushBuffer(st)
    ELSE IF StripEmpty(l)
         THEN (IF Len(st.buf) # 0
               THEN FlushBuffer(st)
               ELSE Sent(st, BreakRequest(30)))
         ELSE WrapLine(st, Parts(l, getRowCharacters), 1)

RECURSIVE IterLines(_, _, _)
IterLines(st, lines, i) ==
    IF i > Len(lines) THEN st
    ELSE IterLines(IterLine(st, lines[i]), lines, i + 1)

\* a single printBreak(30) for a white-only text, whatever it holds
WhiteOnlyOnce(st, text, i) == Sent(st, BreakRequest(30))

\* one printBreak(30) for every '\n' of a white-only text
RECURSIVE WhiteOnly(_, _, _)
WhiteOnly(st, text, i) ==
    IF i > Len(text) THEN st
    ELSE WhiteOnly(IF text[i] = LF THEN Sent(st, BreakRequest(30)) ELSE st,
                   text, i + 1)

\* peripage.Printer.printASCII on buffer buf: the new buffer and the writes
PrintASCII(buf, text0) ==
    LET text == buf \o filter_ascii(text0)
        st == [buf |-> << >>, out |-> << >>]
    IN IF Len(text) = 0 THEN st
       ELSE IF StripEmpty(text) THEN WhiteOnly(st, text, 1)
       ELSE IterLines(st, Split(text), 1)

\* ppa6 printASCII, piece j of line i
Ppa6Part(st, lines, i, parts, j, endLineBreak) ==
    LET p == parts[j]
    IN IF j = Len(parts)
       THEN IF i = Len(lines)
            THEN IF endLineBreak
                 THEN Sent(Sent(st, p), << LF >>)
                 ELSE IF Len(p) = getRowCharacters
                      THEN Keep(Sent(Sent(Keep(st, p), p), << LF >>), << >>)
                      ELSE Keep(st, p)
            ELSE Sent(Sent(st, p), << LF >>)
       ELSE Sent(st, p)

RECURSIVE Ppa6Parts(_, _, _, _, _, _)
Ppa6Parts(st, lines, i, parts, j, endLineBreak) ==
    IF j > Len(parts) THEN st
    ELSE Ppa6Parts(Ppa6Part(st, lines, i, parts, j, endLineBreak),
                   lines, i, parts, j + 1, endLineBreak)

RECURSIVE Ppa6Lines(_, _, _, _)
Ppa6Lines(st, lines, i, endLineBreak) ==
    IF i > Len(lines) THEN st
    ELSE Ppa6Lines(
            IF Len(lines[i]) = 0
            THEN Sent(st, BreakRequest(30))
            ELSE Ppa6Parts(st, lines, i, Parts(lines[i], getRowCharacters), 1,
                           endLineBreak),
            lines, i + 1, endLineBreak)

\* ppa6.Printer.printASCII on buffer buf
Ppa6PrintASCII(buf, text0) ==
    LET text == buf \o filter_ascii(text0)
        st == [buf |-> << >>, out |-> << >>]
    IN IF Len(text) = 0 THEN st
       ELSE LET endLineBreak == text[Len(text)] = LF
            IN IF endLineBreak /\ Len(text) = 1
               THEN Sent(st, BreakRequest(30))
               ELSE Ppa6Lines(st,
                              Split(IF endLineBreak
                                    THEN SubSeq(text, 1, Len(text) - 1)
                                    ELSE text),
                              1, endLineBreak)

\* ppa6 printlnASCII: every piece of a line is written, then a line feed
RECURSIVE Ppa6LnParts(_, _, _)
Ppa6LnParts(st, parts, j) ==
    IF j > Len(parts) THEN st
    ELSE Ppa6LnParts(Sent(st, parts[j]), parts, j + 1)

RECURSIVE Ppa6LnLines(_, _, _)
Ppa6LnLines(st, lines, i) ==
    IF i > Len(lines) THEN st
    ELSE Ppa6LnLines(
            IF Len(lines[i]) = 0
            THEN Sent(st, BreakRequest(30))
            ELSE Sent(Ppa6LnParts(st, Parts(lines[i], getRowCharacters), 1),
                      << LF >>),
            lines, i + 1)

\* ppa6.Printer.printlnASCII on buffer buf
Ppa6PrintlnASCII(buf, text0) ==
    LET text == buf \o filter_ascii(text0)
    IN IF Len(text) = 0
       THEN Sent([buf |-> buf, out |-> << >>], BreakRequest(30))
       ELSE Ppa6LnLines([buf |-> << >>, out |-> << >>], Split(text), 1)

\* a call is recorded: its name, the buffer it started from, its argument
Observe(name, text) ==
    /\ ops' = Append(ops, name)
    /\ pre' = IF ops = << >> THEN print_buffer ELSE pre
    /\ arg' = IF ops = << >> THEN text ELSE arg

\* the call leaves the buffer st.buf and has written st.out
Returns(st) ==
    /\ print_buffer' = st.buf
    /\ out' = out \o st.out

\* peripage.Printer.printASCII(text)
printASCII ==
    /\ cls = "peripage"
    /\ ops = << >>
    /\ \E text \in Texts :
          /\ Returns(PrintASCII(print_buffer, text))
          /\ Observe("printASCII", text)
    /\ UNCHANGED << service, events, service_failture, ping_due, guard_ping,
                    running, should_stop, conn, reset_done, pc, rep, live,
                    pinged, ctask, tprinter, cpc, ret, faulty, submitted,
                    begun, done, ever_connected, stopped, printerType,
                    completed, cls, filtered >>

\* printlnASCII that passes the text on without the line feed
printlnASCIIBare ==
    /\ cls = "peripage"
    /\ ops = << >>
    /\ \E text \in Texts :
          /\ Returns(PrintASCII(print_buffer, text))
          /\ Observe("printlnASCII", text)
    /\ UNCHANGED << service, events, service_failture, ping_due, guard_ping,
                    running, should_stop, conn, reset_done, pc, rep, live,
                    pinged, ctask, tprinter, cpc, ret, faulty, submitted,
                    begun, done, ever_connected, stopped, printerType,
                    completed, cls, filtered >>

\* peripage.Printer.printlnASCII(text): self.printASCII(text + '\n')
printlnASCII ==
    /\ cls = "peripage"
    /\ ops = << >>
    /\ \E text \in Texts :
          /\ Returns(PrintASCII(print_buffer, Append(text, LF)))
          /\ Observe("printlnASCII", text)
    /\ UNCHANGED << service, events, service_failture, ping_due, guard_ping,
                    running, should_stop, conn, reset_done, pc, rep, live,
                    pinged, ctask, tprinter, cpc, ret, faulty, submitted,
                    begun, done, ever_connected, stopped, printerType,
                    completed, cls, filtered >>

\* flushASCII that writes the buffer and keeps it
flushASCIIKeep ==
    /\ Len(ops) < MaxCalls
    /\ IF Len(print_buffer) # 0
       THEN /\ out' = out \o << print_buffer, << LF >> >>
            /\ print_buffer' = print_buffer
       ELSE UNCHANGED << out, print_buffer >>
    /\ Observe("flushASCII", << >>)
    /\ UNCHANGED << service, events, service_failture, ping_due, guard_ping,
                    running, should_stop, conn, reset_done, pc, rep, live,
                    pinged, ctask, tprinter, cpc, ret, faulty, submitted,
                    begun, done, ever_connected, stopped, printerType,
                    completed, cls, filtered >>

\* flushASCII without the test for an empty buffer
flushASCIIAlways ==
    /\ Len(ops) < MaxCalls
    /\ Returns(FlushBuffer([buf |-> print_buffer, out |-> << >>]))
    /\ Observe("flushASCII", << >>)
    /\ UNCHANGED << service, events, service_failture, ping_due, guard_ping,
                    running, should_stop, conn, reset_done, pc, rep, live,
                    pinged, ctask, tprinter, cpc, ret, faulty, submitted,
                    begun, done, ever_connected, stopped, printerType,
                    completed, cls, filtered >>

\* Printer.flushASCII (the same in peripage and ppa6): if the buffer is not
\* empty, write it and a line feed, and clear it
flushASCII ==
    /\ Len(ops) < MaxCalls
    /\ IF Len(print_buffer) # 0
       THEN Returns(FlushBuffer([buf |-> print_buffer, out |-> << >>]))
       ELSE UNCHANGED << out, print_buffer >>
    /\ Observe("flushASCII", << >>)
    /\ UNCHANGED << service, events, service_failture, ping_due, guard_ping,
                    running, should_stop, conn, reset_done, pc, rep, live,
                    pinged, ctask, tprinter, cpc, ret, faulty, submitted,
                    begun, done, ever_connected, stopped, printerType,
                    completed, cls, filtered >>

\* ppa6.Printer.printASCII(text)
ppa6_printASCII ==
    /\ cls = "ppa6"
    /\ ops = << >>
    /\ \E text \in Texts :
          /\ Returns(Ppa6PrintASCII(print_buffer, text))
          /\ Observe("printASCII", text)
    /\ UNCHANGED << service, events, service_failture, ping_due, guard_ping,
                    running, should_stop, conn, reset_done, pc, rep, live,
                    pinged, ctask, tprinter, cpc, ret, faulty, submitted,
                    begun, done, ever_connected, stopped, printerType,
                    completed, cls, filtered >>

\* ppa6.Printer.printlnASCII(text)
ppa6_printlnASCII ==
    /\ cls = "ppa6"
    /\ ops = << >>
    /\ \E text \in Texts :
          /\ Returns(Ppa6PrintlnASCII(print_buffer, text))
          /\ Observe("printlnASCII", text)
    /\ UNCHANGED << service, events, service_failture, ping_due, guard_ping,
                    running, should_stop, conn, reset_done, pc, rep, live,
                    pinged, ctask, tprinter, cpc, ret, faulty, submitted,
                    begun, done, ever_connected, stopped, printerType,
                    completed, cls, filtered >>

\* integer arguments given to the commands: around every clamping limit
IntArgs == {-5, 0, 1, 2, 3, 30, 254, 255, 256, 300, 65519, 65520, 65521, 70000}

\* Printer.printBreak(size): one request, the text buffer is not involved
printBreak ==
    /\ ops = << >>
    /\ \E size \in IntArgs :
          /\ out' = Append(out, BreakRequest(size))
          /\ Observe("printBreak", << size >>)
    /\ UNCHANGED << service, events, service_failture, ping_due, guard_ping,
                    running, should_stop, conn, reset_done, pc, rep, live,
                    pinged, ctask, tprinter, cpc, ret, faulty, submitted,
                    begun, done, ever_connected, stopped, printerType,
                    completed, cls, print_buffer, filtered >>

\* the observation starts afresh with the next call
Forget ==
    /\ ops # << >>
    /\ out' = << >>
    /\ ops' = << >>
    /\ pre' = << >>
    /\ arg' = << >>
    /\ ret' = "none"
    /\ filtered' = << >>
    /\ UNCHANGED << service, events, service_failture, ping_due, guard_ping,
                    running, should_stop, conn, reset_done, pc, rep, live,
                    pinged, ctask, tprinter, cpc, faulty, submitted, begun,
                    done, ever_connected, stopped, printerType, completed,
                    cls, print_buffer >>

\* ------------------------------------------------------------ commands and images
\* a reset request of the prefix alone
ResetPrefix == << 16, 255, 254, 1 >>

\* Printer.reset: bytes.fromhex('10fffe01000000000000000000000000')
ResetRequest == << 16, 255, 254, 1, 0, 0, 0, 0, 0, 0, 0, 0, 0, 0, 0, 0 >>

\* the limits of setPowerTimeout: max(min(0xfff0, timeout), 0x0001)
ClampTimeout(timeout) ==
    IF timeout > 65520 THEN 65520 ELSE IF timeout < 1 THEN 1 ELSE timeout

\* int.to_bytes(n, 2, 'big')
BigEndian2(n) == << n \div 256, n % 256 >>

\* setPowerTimeout with the value sent low byte first
PowerTimeoutLittleEndian(timeout) ==
    << 16, 255, 18, ClampTimeout(timeout) % 256, ClampTimeout(timeout) \div 256 >>

\* setPowerTimeout: bytes.fromhex('10ff12') + int.to_bytes(timeout, 2, 'big')
PowerTimeoutRequest(timeout) ==
    << 16, 255, 18 >> \o BigEndian2(ClampTimeout(timeout))

\* setConcentration with the level sent as given
ConcentrationUnclamped(concentration) ==
    << 16, 255, 16, 0, concentration % 256 >>

\* setConcentration: 10ff100000, 10ff100001 or 10ff100002
ConcentrationRequest(concentration) ==
    IF concentration <= 0 THEN << 16, 255, 16, 0, 0 >>
    ELSE IF concentration = 1 THEN << 16, 255, 16, 0, 1 >>
    ELSE << 16, 255, 16, 0, 2 >>

\* self.printer_type.spec.row_bytes
getRowBytes == row_bytes

\* rows of an image chunk: the height limit 0xff
ChunkRows == 255

\* a row: bytes 00 and ff, shorter than, as long as, or longer than a row
RowBytes == UNION {[1..n -> {0, 255}] : n \in 0..(row_bytes + 1)}

\* images: short ones with any rows, tall ones of one-byte rows
Images ==
    UNION {[1..n -> RowBytes] : n \in 0..MaxFreeRows}
       \cup {[i \in 1..n |-> << 255 >>] : n \in (MaxFreeRows + 1)..MaxRows}

\* the row is cut and never padded
NormalizeCut(row) ==
    IF Len(row) > getRowBytes THEN SubSeq(row, 1, getRowBytes) ELSE row

\* row.ljust(expectedLen, b'\0') if shorter, row[:expectedLen] if longer
Normalize(row) ==
    IF Len(row) < getRowBytes
    THEN row \o [i \in 1..(getRowBytes - Len(row)) |-> 0]
    ELSE IF Len(row) > getRowBytes
         THEN SubSeq(row, 1, getRowBytes)
         ELSE row

\* peripage: 1d763000 + row_bytes + 00 + height + 00
Header(height) == << 29, 118, 48, 0, getRowBytes, 0, height, 0 >>

\* peripage printRow: reset, then one request of header 1d763000 + row_bytes +
\* 000100 and the row
PrintRow(rowbytes) ==
    << ResetRequest,
       << 29, 118, 48, 0, getRowBytes, 0, 1, 0 >> \o Normalize(rowbytes) >>

\* chunks = [ rowbytes[i:i+0xff] for i in range(0, len(rowbytes), 0xff) ]
Chunks(rowbytes) ==
    [k \in 1..((Len(rowbytes) + ChunkRows - 1) \div ChunkRows) |->
        SubSeq(rowbytes, (k - 1) * ChunkRows + 1,
               Min(k * ChunkRows, Len(rowbytes)))]

\* the header is sent before the reset
ChunkHeaderFirst(chunk) ==
    << Header(Len(chunk)), ResetRequest >>
       \o [j \in 1..Len(chunk) |-> Normalize(chunk[j])]

\* every chunk announced as a full one
ChunkFull(chunk) ==
    << ResetRequest, Header(ChunkRows) >>
       \o [j \in 1..Len(chunk) |-> Normalize(chunk[j])]

\* peripage printRowBytesList, one chunk: reset, header, the rows
Chunk(chunk) ==
    << ResetRequest, Header(Len(chunk)) >>
       \o [j \in 1..Len(chunk) |-> Normalize(chunk[j])]

RECURSIVE ChunksFrom(_, _)
ChunksFrom(chunks, k) ==
    IF k > Len(chunks) THEN << >>
    ELSE Chunk(chunks[k]) \o ChunksFrom(chunks, k + 1)

\* peripage.Printer.printRowBytesList
PrintRowBytesList(rowbytes) ==
    IF Len(rowbytes) = 0 THEN << >> ELSE ChunksFrom(Chunks(rowbytes), 1)

\* ppa6: 1d7630003000 + height + 00 for A6, 1d7630004800 + height + 00 otherwise
Ppa6Header(height) ==
    << 29, 118, 48, 0, IF printerType = "A6" THEN 48 ELSE 72, 0, height, 0 >>

\* math.ceil(imgHeight / 0xff)
nPieces(imgHeight) == (imgHeight + ChunkRows - 1) \div ChunkRows

\* height = 0xff if i < nPieces-1 else restPixels, restPixels = imgHeight % 0xff
PieceHeight(imgHeight, i) ==
    IF i < nPieces(imgHeight) - 1 THEN ChunkRows ELSE imgHeight % ChunkRows

\* ppa6 printImageRowBytesList, piece i (from 0): reset, header, the rows
\* imagebytes[i*0xff+j] for j in range(height)
RECURSIVE Ppa6Pieces(_, _)
Ppa6Pieces(imagebytes, i) ==
    IF i >= nPieces(Len(imagebytes)) THEN << >>
    ELSE << ResetRequest, Ppa6Header(PieceHeight(Len(imagebytes), i)) >>
            \o [j \in 1..PieceHeight(Len(imagebytes), i) |->
                   Normalize(imagebytes[i * ChunkRows + j])]
            \o Ppa6Pieces(imagebytes, i + 1)

\* ppa6 printImageBytes, piece i: the rows are slices of expectedLen bytes
\* of the byte string; imgHeight = floor(len(imagebytes) / expectedLen)
RECURSIVE Ppa6BytePieces(_, _)
Ppa6BytePieces(imagebytes, i) ==
    LET imgHeight == Len(imagebytes) \div getRowBytes
    IN IF i >= nPieces(imgHeight) THEN << >>
       ELSE << ResetRequest, Ppa6Header(PieceHeight(imgHeight, i)) >>
               \o [j \in 1..PieceHeight(imgHeight, i) |->
                      SubSeq(imagebytes,
                             (i * ChunkRows + j - 1) * getRowBytes + 1,
                             (i * ChunkRows + j) * getRowBytes)]
               \o Ppa6BytePieces(imagebytes, i + 1)

\* Printer.is_safe_ascii: return False at the first character that passes
\* the test of filter_ascii, True if there is none
IsSafeAscii(text) ==
    ~(\E k \in 1..Len(text) :
         (31 < text[k] \/ text[k] = 10) /\ text[k] < 127)

\* a call that has no use for the text buffer: its writes, and its record
Call(name, a, writes) ==
    /\ out' = out \o writes
    /\ Observe(name, a)

\* Printer.reset (the same request in both classes)
reset ==
    /\ ops = << >>
    /\ Call("reset", << >>, << ResetRequest >>)
    /\ UNCHANGED << service, events, service_failture, ping_due, guard_ping,
                    running, should_stop, conn, reset_done, pc, rep, live,
                    pinged, ctask, tprinter, cpc, ret, faulty, submitted,
                    begun, done, ever_connected, stopped, printerType,
                    completed, cls, print_buffer, filtered >>

\* Printer.setPowerTimeout(timeout)
setPowerTimeout ==
    /\ ops = << >>
    /\ \E timeout \in IntArgs :
          Call("setPowerTimeout", << timeout >>,
               << PowerTimeoutRequest(timeout) >>)
    /\ UNCHANGED << service, events, service_failture, ping_due, guard_ping,
                    running, should_stop, conn, reset_done, pc, rep, live,
                    pinged, ctask, tprinter, cpc, ret, faulty, submitted,
                    begun, done, ever_connected, stopped, printerType,
                    completed, cls, print_buffer, filtered >>

\* Printer.setConcentration(concentration)
setConcentration ==
    /\ ops = << >>
    /\ \E concentration \in IntArgs :
          Call("setConcentration", << concentration >>,
               << ConcentrationRequest(concentration) >>)
    /\ UNCHANGED << service, events, service_failture, ping_due, guard_ping,
                    running, should_stop, conn, reset_done, pc, rep, live,
                    pinged, ctask, tprinter, cpc, ret, faulty, submitted,
                    begun, done, ever_connected, stopped, printerType,
                    completed, cls, print_buffer, filtered >>

\* peripage.Printer.printRow(rowbytes)
printRow ==
    /\ ops = << >>
    /\ cls = "peripage"
    /\ \E rowbytes \in RowBytes :
          Call("printRow", rowbytes, PrintRow(rowbytes))
    /\ UNCHANGED << service, events, service_failture, ping_due, guard_ping,
                    running, should_stop, conn, reset_done, pc, rep, live,
                    pinged, ctask, tprinter, cpc, ret, faulty, submitted,
                    begun, done, ever_connected, stopped, printerType,
                    completed, cls, print_buffer, filtered >>

\* peripage.Printer.printRowBytesList(rowbytes)
printRowBytesList ==
    /\ ops = << >>
    /\ cls = "peripage"
    /\ \E rowbytes \in Images :
          Call("printRowBytesList", rowbytes, PrintRowBytesList(rowbytes))
    /\ UNCHANGED << service, events, service_failture, ping_due, guard_ping,
                    running, should_stop, conn, reset_done, pc, rep, live,
                    pinged, ctask, tprinter, cpc, ret, faulty, submitted,
                    begun, done, ever_connected, stopped, printerType,
                    completed, cls, print_buffer, filtered >>

\* ppa6.Printer.printImageRowBytesList(imagebytes)
printImageRowBytesList ==
    /\ ops = << >>
    /\ cls = "ppa6"
    /\ \E imagebytes \in Images :
          Call("printImageRowBytesList", imagebytes,
               Ppa6Pieces(imagebytes, 0))
    /\ UNCHANGED << service, events, service_failture, ping_due, guard_ping,
                    running, should_stop, conn, reset_done, pc, rep, live,
                    pinged, ctask, tprinter, cpc, ret, faulty, submitted,
                    begun, done, ever_connected, stopped, printerType,
                    completed, cls, print_buffer, filtered >>

\* ppa6.Printer.printImageBytes(imagebytes): the rows as one byte string
printImageBytes ==
    /\ ops = << >>
    /\ cls = "ppa6"
    /\ \E n \in 0..(MaxRows * getRowBytes + 1) :
          LET imagebytes == [i \in 1..n |-> 255]
          IN Call("printImageBytes", imagebytes,
                  Ppa6BytePieces(imagebytes, 0))
    /\ UNCHANGED << service, events, service_failture, ping_due, guard_ping,
                    running, should_stop, conn, reset_done, pc, rep, live,
                    pinged, ctask, tprinter, cpc, ret, faulty, submitted,
                    begun, done, ever_connected, stopped, printerType,
                    completed, cls, print_buffer, filtered >>

\* Printer.is_safe_ascii(text), a static method: only the result
is_safe_ascii ==
    /\ ops = << >>
    /\ \E text \in Texts :
          /\ ret' = IF IsSafeAscii(text) THEN "True" ELSE "False"
          /\ Observe("is_safe_ascii", text)
    /\ UNCHANGED << service, events, service_failture, ping_due, guard_ping,
                    running, should_stop, conn, reset_done, pc, rep, live,
                    pinged, ctask, tprinter, cpc, faulty, submitted, begun,
                    done, ever_connected, stopped, printerType, completed,
                    cls, print_buffer, out, filtered >>

\* characters given to filter_ascii: both sides of each limit of the test
\* (31 < ord < 127), the line feed, a control and a non-ASCII character
FilterChars == {9, 10, 31, 32, 97, 126, 127, 200}
FilterTexts == UNION {[1..n -> FilterChars] : n \in 0..MaxFilter}

\* Printer.filter_ascii(text), a static method: only the result
call_filter_ascii ==
    /\ ops = << >>
    /\ \E text \in FilterTexts :
          /\ filtered' = filter_ascii(text)
          /\ Observe("filter_ascii", text)
    /\ UNCHANGED << service, events, service_failture, ping_due, guard_ping,
                    running, should_stop, conn, reset_done, pc, rep, live,
                    pinged, ctask, tprinter, cpc, ret, faulty, submitted,
                    begun, done, ever_connected, stopped, printerType,
                    completed, cls, print_buffer, out >>
\* ------------------------------------------------------------ specifications
\* the worker threads
Workers == \E t \in Threads : Worker(t)

\* start() on a service that was never started
FirstStart == service = 0 /\ Start

Enqueue ==
    \/ add_print_handler \/ add_print_ascii \/ add_print_image
    \/ add_print_break \/ add_print_flush_ascii \/ add_print_concentration

Stop == StopService \/ StopDisconnect

Environment == Tick \/ LinkDrop \/ LinkChange

\* A PrintService started once (as print-server/__main__.py does): every
\* interleaving of the callers, the worker and the transport.
Next ==
    \/ FirstStart
    \/ Stop
    \/ Enqueue
    \/ clear_tasks
    \/ Workers
    \/ Environment

Spec == Init /\ [][Next]_vars

\* start() called a second time on the same PrintService (with or without a
\* stop() in between), with the guard ping configured and over a transport
\* that does not fail by itself: the first worker thread is still alive.
InitRestart == Init /\ ~faulty /\ guard_ping

Restart == service = 1 /\ Start

NextRestart ==
    \/ FirstStart
    \/ Restart
    \/ Stop
    \/ add_print_handler
    \/ Workers

SpecRestart == InitRestart /\ [][NextRestart]_vars

\* A PrintService started once whose queue is never cleared, with the
\* scheduling Python gives: the worker thread is never starved, and every
\* blocking call in it returns (sleeps end, socket calls have a timeout);
\* a caller inside stop() gets to its second statement.
NextFair ==
    \/ FirstStart
    \/ Stop
    \/ add_print_handler
    \/ Workers
    \/ Environment

FairSpec ==
    Init /\ [][NextFair]_vars /\ WF_vars(Workers) /\ WF_vars(StopDisconnect)

\* One Printer object of either class on a connected transport that accepts
\* every write: any sequence of printASCII, printlnASCII, flushASCII and
\* printBreak calls with any texts.  The service is not started.
InitText ==
    /\ service = 0
    /\ events = << >>
    /\ service_failture = TRUE
    /\ ping_due = TRUE
    /\ guard_ping = FALSE
    /\ running = [r \in Services |-> FALSE]
    /\ should_stop = [r \in Services |-> TRUE]
    /\ conn = [p \in Services |-> FALSE]
    /\ reset_done = [p \in Services |-> FALSE]
    /\ pc = [t \in Threads |-> "none"]
    /\ rep = [t \in Threads |-> 0]
    /\ live = [t \in Threads |-> FALSE]
    /\ pinged = [t \in Threads |-> FALSE]
    /\ ctask = [t \in Threads |-> 0]
    /\ tprinter = [t \in Threads |-> 0]
    /\ cpc = "idle"
    /\ ret = "none"
    /\ faulty = FALSE
    /\ submitted = 0
    /\ begun = [k \in Tasks |-> 0]
    /\ done = [k \in Tasks |-> FALSE]
    /\ ever_connected = FALSE
    /\ stopped = [r \in Services |-> FALSE]
    /\ printerType = "A6p"
    /\ completed = [t \in Threads |-> 0]
    /\ cls \in {"peripage", "ppa6"}
    /\ print_buffer = << >>
    /\ out = << >>
    /\ pre = << >>
    /\ ops = << >>
    /\ arg = << >>
    /\ filtered = << >>

NextText ==
    \/ printASCII
    \/ printlnASCII
    \/ flushASCII
    \/ ppa6_printASCII
    \/ ppa6_printlnASCII
    \/ printBreak
    \/ Forget

SpecText == InitText /\ [][NextText]_vars

\* A PrintService started once with a printer_type that ppa6.Printer supports
\* or one it does not (the constructor accepts any value), and image tasks
\* submitted with add_print_image.
InitModel ==
    /\ service = 0
    /\ events = << >>
    /\ service_failture = TRUE
    /\ ping_due = TRUE
    /\ guard_ping \in BOOLEAN
    /\ running = [r \in Services |-> FALSE]
    /\ should_stop = [r \in Services |-> TRUE]
    /\ conn = [p \in Services |-> FALSE]
    /\ reset_done = [p \in Services |-> FALSE]
    /\ pc = [t \in Threads |-> "none"]
    /\ rep = [t \in Threads |-> 0]
    /\ live = [t \in Threads |-> FALSE]
    /\ pinged = [t \in Threads |-> FALSE]
    /\ ctask = [t \in Threads |-> 0]
    /\ tprinter = [t \in Threads |-> 0]
    /\ cpc = "idle"
    /\ ret = "none"
    /\ faulty \in BOOLEAN
    /\ submitted = 0
    /\ begun = [k \in Tasks |-> 0]
    /\ done = [k \in Tasks |-> FALSE]
    /\ ever_connected = FALSE
    /\ stopped = [r \in Services |-> FALSE]
    /\ printerType \in {"A6p", "unsupported"}
    /\ completed = [t \in Threads |-> 0]
    /\ cls = "ppa6"
    /\ print_buffer = << >>
    /\ out = << >>
    /\ pre = << >>
    /\ ops = << >>
    /\ arg = << >>
    /\ filtered = << >>

NextModel ==
    \/ FirstStart
    \/ add_print_image
    \/ Workers
    \/ Environment

SpecModel == InitModel /\ [][NextModel]_vars

\* One Printer object of either class and type on a connected transport that
\* accepts every write: the commands and the row printing calls, one at a
\* time, with arguments around every limit.
InitCmd ==
    /\ service = 0
    /\ events = << >>
    /\ service_failture = TRUE
    /\ ping_due = TRUE
    /\ guard_ping = FALSE
    /\ running = [r \in Services |-> FALSE]
    /\ should_stop = [r \in Services |-> TRUE]
    /\ conn = [p \in Services |-> FALSE]
    /\ reset_done = [p \in Services |-> FALSE]
    /\ pc = [t \in Threads |-> "none"]
    /\ rep = [t \in Threads |-> 0]
    /\ live = [t \in Threads |-> FALSE]
    /\ pinged = [t \in Threads |-> FALSE]
    /\ ctask = [t \in Threads |-> 0]
    /\ tprinter = [t \in Threads |-> 0]
    /\ cpc = "idle"
    /\ ret = "none"
    /\ faulty = FALSE
    /\ submitted = 0
    /\ begun = [k \in Tasks |-> 0]
    /\ done = [k \in Tasks |-> FALSE]
    /\ ever_connected = FALSE
    /\ stopped = [r \in Services |-> FALSE]
    /\ printerType \in {"A6", "A6p"}
    /\ completed = [t \in Threads |-> 0]
    /\ cls \in {"peripage", "ppa6"}
    /\ print_buffer = << >>
    /\ out = << >>
    /\ pre = << >>
    /\ ops = << >>
    /\ arg = << >>
    /\ filtered = << >>

NextCmd ==
    \/ reset
    \/ setPowerTimeout
    \/ setConcentration
    \/ printBreak
    \/ printRow
    \/ printRowBytesList
    \/ printImageRowBytesList
    \/ printImageBytes
    \/ is_safe_ascii
    \/ call_filter_ascii
    \/ Forget

SpecCmd == InitCmd /\ [][NextCmd]_vars

\* ------------------------------------------------------------ properties
Range(q) == {q[i] : i \in 1..Len(q)}

\* steps of a worker thread, recognised by its position
Begins(t) == pc[t] = "exec" /\ pc'[t] = "task"
Completes(t) == pc[t] = "task" /\ pc'[t] = "pop"
Raises(t) == pc[t] \in {"guard", "task"} /\ pc'[t] = "except"
Steps(t) == pc[t] # "none" /\ pc'[t] # pc[t]

\* threads inside service_handler
InHandler == {t \in Threads : pc[t] \in InHandlerPcs}

\* C1 as stated: every submitted task begins execution at most once (a task
\* that raised is dropped, never retried).
C1_AtMostOnce == \A k \in Tasks : begun[k] <= 1

\* C1 as the code has it: a task whose execution, or the keep-alive before
\* it, raises is left in the queue (so it begins again after the reconnect),
\* and no task completes an execution without exception more than once.
C1_CompletesOnce ==
    [][\A t \in Threads :
          /\ Completes(t) => ~done[ctask[t]]
          /\ Raises(t) => events' = events]_vars

C1_Witness == \E k \in Tasks : begun[k] = 2 /\ done[k]

\* C2: tasks begin in submission order: when a task begins, no task
\* submitted after it has begun before, and every task submitted before it
\* has left the queue and is not executing.
C2_Fifo ==
    [][\A t \in Threads :
          Begins(t) =>
             \A j \in Tasks :
                /\ j > ctask'[t] => begun[j] = 0
                /\ j < ctask'[t] =>
                      j \notin Range(events) /\ \A u \in Threads : ctask[u] # j]_vars

C2_Witness == done[1] /\ \E t \in Threads : pc[t] = "task" /\ ctask[t] = 2

\* C3 as stated: under every interleaving of start(), stop() and enqueue
\* calls at most one thread is inside service_handler.
C3_OneWorker == Cardinality(InHandler) <= 1

\* C3 for a PrintService on which start() was called once: under every
\* interleaving of stop() and enqueue calls with the worker, at most one
\* thread is inside service_handler.
C3_OneWorkerPerStart == service <= 1 => Cardinality(InHandler) <= 1

C3_Witness ==
    /\ service = 1
    /\ stopped[1]
    /\ submitted >= 1
    /\ \E t \in Threads : pc[t] = "task"

\* C4: no task runs on a connection on which reset has not been delivered.
C4_ResetBeforeTask ==
    \A t \in Threads :
       (pc[t] = "task" /\ conn[tprinter[t]]) => reset_done[tprinter[t]]

\* C5: a task is invoked only if isConnected() returned True earlier in the
\* same cycle, and a cycle that finds the printer disconnected goes to the
\* reconnect path without invoking or removing a task.
C5_ConnectedCheck ==
    [][\A t \in Threads :
          /\ Begins(t) => live[t]
          /\ (pc[t] = "top" /\ pc'[t] # "top" /\ running[service] /\ ~conn[service])
                => (pc'[t] = "except" /\ events' = events /\ begun' = begun)]_vars

C5_Witness ==
    \E t \in Threads : pc[t] = "task" /\ live[t] /\ service_failture = FALSE

\* C6: with guard_ping_interval not None, a non-empty queue always leads to
\* the battery query, whether or not a ping is due; the query sets
\* last_ping_timestamp, and no task is invoked without it having succeeded
\* in the same cycle.
C6_GuardPing ==
    [][\A t \in Threads :
          /\ (guard_ping /\ pc[t] = "events" /\ Len(events) > 0 /\ Steps(t))
                => pc'[t] = "guard"
          /\ (pc[t] = "guard" /\ pc'[t] = "exec") => ping_due' = FALSE
          /\ (guard_ping /\ Begins(t)) => pinged[t]]_vars

C6_Witness ==
    /\ guard_ping
    /\ done[1]
    /\ \E t \in Threads : pc[t] = "task" /\ ctask[t] = 2 /\ pinged[t]

C9_StopTerminates ==
    \A r \in Services :
       (stopped[r] /\ cpc = "idle") ~>
          (\A t \in Threads : rep[t] = r => pc[t] = "exited")

\* C10: stop() never closes the transport of a task that is executing.
C10_StopKeepsTask ==
    [][\A t \in Threads :
          (pc[t] = "task" /\ cpc = "disconnect" /\ cpc' = "idle")
             => conn'[tprinter[t]] = conn[tprinter[t]]]_vars

\* C11: once stop() has returned, the worker of the stopped service begins no
\* connection attempt and no task execution, and the transport stays
\* disconnected.
C11_QuietAfterStop ==
    [][(service = 1 /\ stopped[1] /\ cpc = "idle") =>
          /\ \A t \in Threads :
                /\ ~(pc[t] # "connect" /\ pc'[t] = "connect")
                /\ ~Begins(t)
          /\ ~conn'[1]]_vars

\* C12: a call of an add_* method either appends exactly one task at the
\* tail of the queue and returns True, or changes nothing and returns False;
\* it leaves the connection, the ping timestamp, the failure flag and the
\* worker's position unchanged, and it can be taken whatever the worker is
\* doing.
C12_EnqueueOnly ==
    [][/\ (submitted' # submitted \/ ret' # ret) =>
             /\ \/ /\ ret' = "True"
                   /\ submitted' = submitted + 1
                   /\ events' = Append(events, submitted')
                \/ /\ ret' = "False"
                   /\ submitted' = submitted
                   /\ events' = events
             /\ conn' = conn
             /\ reset_done' = reset_done
             /\ ping_due' = ping_due
             /\ service_failture' = service_failture
             /\ pc' = pc
             /\ cpc' = cpc
       /\ submitted < MaxTasks =>
             (ENABLED add_print_handler /\ ENABLED add_print_ascii
                /\ ENABLED add_print_break)]_vars

C12_Witness ==
    /\ ret = "False"
    /\ Len(events) = 2
    /\ conn[1]
    /\ \E t \in Threads : pc[t] = "task" /\ ctask[t] = 1

\* a step of thread t in which a device exchange, connect() or the task
\* raised an exception
Throws(t) ==
    \/ pc[t] \in {"top", "ping", "guard", "exec", "task", "pop"} /\ pc'[t] = "except"
    \/ pc[t] \in {"connect", "reset"} /\ pc'[t] = "top"
    \/ pc[t] = "conc" /\ pc'[t] = "top" /\ service_failture'

\* C13: an exception raised by connect, by a device exchange or by a task
\* leaves the worker thread inside service_handler, reaches no caller (no
\* return value changes, the queue is untouched), and the thread goes on to
\* the next connection attempt; a worker thread ends only through
\* should_stop.
C13_Contained ==
    /\ [][\A t \in Threads :
             /\ Throws(t) =>
                   /\ pc'[t] \in InHandlerPcs
                   /\ ret' = ret
                   /\ cpc' = cpc
                   /\ events' = events
                   /\ submitted' = submitted
             /\ (pc[t] # "exited" /\ pc'[t] = "exited") =>
                   (pc[t] = "loop" /\ should_stop[rep[t]])]_vars
    /\ \A t \in Threads : (pc[t] = "except") ~> (pc[t] = "connect")

C13_Witness ==
    /\ service_failture
    /\ ever_connected
    /\ ret = "True"
    /\ begun[1] = 2
    /\ ~done[1]
    /\ \E t \in Threads : pc[t] = "connect"

\* ------------------------------------------------------------ text-wrap buffer
\* a write of ASCII text: not empty, printable characters only, no line feed
IsText(w) == Len(w) > 0 /\ \A i \in 1..Len(w) : 31 < w[i] /\ w[i] < 127

\* the printable characters of a text, in order
Printable(text) == SelectSeq(text, LAMBDA c : c \in 32..126)
Blank(s) == \A i \in 1..Len(s) : s[i] = 32

\* one printASCII(arg) call on a peripage.Printer whose buffer was empty
FirstPrint ==
    cls = "peripage" /\ ops = << "printASCII" >> /\ pre = << >>

\* C14 as stated: a text without line feed and shorter than a row sends
\* nothing and becomes the buffer exactly.
C14_ShortBuffered ==
    (FirstPrint /\ LF \notin Range(arg) /\ Len(arg) < getRowCharacters)
       => (out = << >> /\ print_buffer = arg)

\* C14 as the code has it: for a text without line feed whose printable
\* characters are fewer than a row, nothing is sent and the buffer becomes
\* those characters, except that a text of spaces only is discarded.
C14_ShortFilteredBuffered ==
    (FirstPrint /\ LF \notin Range(arg)
        /\ Len(Printable(arg)) < getRowCharacters)
       => /\ out = << >>
          /\ print_buffer =
                IF Blank(Printable(arg)) THEN << >> ELSE Printable(arg)

C14_Witness ==
    /\ FirstPrint
    /\ LF \notin Range(arg)
    /\ 9 \in Range(arg)
    /\ Len(arg) >= getRowCharacters
    /\ out = << >>
    /\ print_buffer # << >>
    /\ print_buffer = Printable(arg)

\* C15 as stated: a text without line feed exactly one row long is sent as
\* one full-row write and one line-feed write, and the buffer is empty.
C15_ExactEmitted ==
    (FirstPrint /\ LF \notin Range(arg) /\ Len(arg) = getRowCharacters)
       => (out = << arg, << LF >> >> /\ print_buffer = << >>)

\* C15 as the code has it: when the printable characters of a text without
\* line feed fill exactly one row, they are sent as one write followed by one
\* line-feed write, unless they are all spaces, when nothing is sent; the
\* buffer is empty afterwards.
C15_ExactFilteredEmitted ==
    (FirstPrint /\ LF \notin Range(arg)
        /\ Len(Printable(arg)) = getRowCharacters)
       => /\ out = IF Blank(Printable(arg))
                   THEN << >>
                   ELSE << Printable(arg), << LF >> >>
          /\ print_buffer = << >>

C15_Witness ==
    /\ FirstPrint
    /\ LF \notin Range(arg)
    /\ Len(arg) > getRowCharacters
    /\ Len(Printable(arg)) = getRowCharacters
    /\ out = << Printable(arg), << LF >> >>
    /\ print_buffer = << >>

\* C16: in the writes of any sequence of printASCII, printlnASCII and
\* flushASCII calls on a peripage.Printer, every line-feed write comes
\* directly after a write of non-empty text without line feed made by the
\* same call, and no other write contains a line feed: the stream never has
\* two line feeds in a row.
C16_NoDoubleLF ==
    cls = "peripage" =>
       \A i \in 1..Len(out) :
          IF out[i] = << LF >>
          THEN i > 1 /\ IsText(out[i - 1])
          ELSE LF \notin Range(out[i])

C16_Witness ==
    /\ FirstPrint
    /\ arg = << 97, LF, LF, 98 >>
    /\ out = << << 97 >>, << LF >> >>
    /\ print_buffer = << 98 >>

\* number of adjacent line-feed pairs in a text, of break(30) requests in
\* a stream
LFPairs(s) == Cardinality({i \in 1..(Len(s) - 1) : s[i] = LF /\ s[i + 1] = LF})
Breaks(o) == Cardinality({i \in 1..Len(o) : o[i] = BreakRequest(30)})

\* C17: printASCII sends a break(30) for every pair of adjacent line feeds
\* of the filtered text.
C17_BlankLinesBreak ==
    (cls = "peripage" /\ ops = << "printASCII" >>)
       => Breaks(out) >= LFPairs(filter_ascii(arg))

\* the characters of the text writes of a stream, in order
RECURSIVE Written(_)
Written(o) ==
    IF o = << >> THEN << >>
    ELSE (IF IsText(Head(o)) THEN Head(o) ELSE << >>) \o Written(Tail(o))

\* C18: printASCII(text) on an empty buffer followed by flushASCII() writes
\* every character of the filtered text other than the line feed, in order
\* and once, for every text that is not whitespace-only.
C18_NoTextLost ==
    (cls = "peripage" /\ ops = << "printASCII", "flushASCII" >>
        /\ pre = << >> /\ ~StripEmpty(filter_ascii(arg)))
       => Written(out) = SelectSeq(filter_ascii(arg), LAMBDA c : c # LF)

\* C19: in both classes the buffer is always shorter than a row and holds
\* only characters the filter accepts, none of them a line feed; and it is
\* changed by printASCII, printlnASCII and flushASCII calls only.
C19_PendingLine ==
    /\ [](/\ Len(print_buffer) < getRowCharacters
          /\ \A i \in 1..Len(print_buffer) :
                31 < print_buffer[i] /\ print_buffer[i] < 127)
    /\ [][print_buffer' # print_buffer =>
             /\ Len(ops') = Len(ops) + 1
             /\ ops'[Len(ops')] \in {"printASCII", "printlnASCII", "flushASCII"}]_vars

C19_Witness ==
    /\ cls = "ppa6"
    /\ ops = << "printASCII" >>
    /\ 9 \in Range(arg)
    /\ Len(filter_ascii(arg)) > getRowCharacters
    /\ pre # << >>
    /\ print_buffer # << >>
    /\ out # << >>

\* C20: flushASCII() on a non-empty buffer writes the buffer and one line
\* feed and empties the buffer; on an empty buffer it writes nothing and
\* changes nothing, so a flushASCII() directly after another writes nothing.
C20_FlushIdempotent ==
    [][ops' = Append(ops, "flushASCII") =>
          /\ IF print_buffer # << >>
             THEN /\ out' = out \o << print_buffer, << LF >> >>
                  /\ print_buffer' = << >>
             ELSE /\ out' = out
                  /\ print_buffer' = print_buffer
          /\ (ops # << >> /\ ops[Len(ops)] = "flushASCII") =>
                (out' = out /\ print_buffer' = print_buffer)]_vars

C20_Witness ==
    /\ cls = "peripage"
    /\ ops = << "flushASCII", "flushASCII" >>
    /\ pre # << >>
    /\ out = << pre, << LF >> >>
    /\ print_buffer = << >>

\* ------------------------------------------------------------ queue and recovery
\* C29: the element a worker removes from the queue is the task it has just
\* executed to completion; it never removes a task that has not been
\* executed.
C29_PopsExecuted ==
    [][\A t \in Threads :
          (pc[t] = "pop" /\ pc'[t] = "sleep")
             => (events # << >> /\ Head(events) = ctask[t]
                   /\ done[Head(events)])]_vars

\* a step of thread t that sends a command other than those of the
\* reconnect sequence: the battery query, or a task handed to the printer
Commands(t) ==
    \/ pc[t] = "ping" /\ ping_due /\ Steps(t)
    \/ pc[t] = "guard" /\ Steps(t)
    \/ Begins(t)

\* C30: an exception in the liveness check, the keep-alive or a task sets
\* service_failture; from then on no other command is sent until the
\* worker has disconnected and connect, reset and setConcentration have all
\* succeeded, which is the only way service_failture becomes false again.
C30_RecoverFirst ==
    [][\A t \in Threads :
          /\ (pc[t] = "except" /\ Steps(t))
                => (service_failture' /\ pc'[t] = "disc")
          /\ service_failture => ~Commands(t)
          /\ (Steps(t) /\ service_failture /\ ~service_failture')
                => (pc[t] = "conc" /\ conn[service] /\ reset_done[service])]_vars

\* C28: with an unsupported printer type a print submission is rejected
\* when it is made (it returns False and enqueues nothing), and no task
\* raises in the worker loop.
C28_RejectedAtSubmit ==
    [][printerType = "unsupported" =>
          /\ (submitted' # submitted \/ ret' # ret)
                => (ret' = "False" /\ events' = events)
          /\ \A t \in Threads : ~(pc[t] = "task" /\ pc'[t] = "except")]_vars

\* the row the printer must receive for an input row: getRowBytes bytes, the
\* input's bytes first, zeros after them
Padded(row) == [i \in 1..getRowBytes |-> IF i <= Len(row) THEN row[i] ELSE 0]

\* a write that starts an image chunk: 1d 76 30 00, eight bytes
IsHeader(w) == Len(w) = 8 /\ SubSeq(w, 1, 4) = << 29, 118, 48, 0 >>

\* the row writes of the observed stream, in order
RowWrites == SelectSeq(out, LAMBDA w : w # ResetRequest /\ ~IsHeader(w))

\* the positions of the chunk headers in the observed stream
Headers == {i \in 1..Len(out) : IsHeader(out[i])}

\* C21: peripage sends every image row exactly rowBytes long: a shorter input
\* row is its own prefix padded with zero bytes on the right, a longer one is
\* cut to its first rowBytes bytes, and no row is rejected (one row sent for
\* each input row, in order).
C21_RowsNormalised ==
    /\ ops = << "printRow" >> =>
          /\ Len(out) = 2
          /\ Len(out[2]) = 8 + getRowBytes
          /\ SubSeq(out[2], 9, 8 + getRowBytes) = Padded(arg)
    /\ ops = << "printRowBytesList" >> =>
          /\ Len(RowWrites) = Len(arg)
          /\ \A i \in 1..Len(arg) : RowWrites[i] = Padded(arg[i])

C21_Witness ==
    /\ ops = << "printRowBytesList" >>
    /\ Len(arg) = 2
    /\ Len(arg[1]) < getRowBytes
    /\ Len(arg[2]) > getRowBytes
    /\ arg[1] # << >>
    /\ RowWrites = << Padded(arg[1]), Padded(arg[2]) >>

\* C22: peripage splits an image of N rows into ceil(N/255) chunks of at most
\* 255 rows; each chunk header announces a height between 1 and 255 that is
\* the number of rows sent after it, the heights add up to N, and nothing at
\* all is sent for N = 0.
C22_Chunks ==
    ops = << "printRowBytesList" >> =>
       /\ Len(arg) = 0 => out = << >>
       /\ Cardinality(Headers) = (Len(arg) + 254) \div 255
       /\ Len(RowWrites) = Len(arg)
       /\ \A i \in Headers :
             /\ out[i][7] \in 1..255
             /\ i + out[i][7] <= Len(out)
             /\ \A j \in (i + 1)..(i + out[i][7]) :
                   out[j] # ResetRequest /\ ~IsHeader(out[j])
             /\ i + out[i][7] < Len(out) => out[i + out[i][7] + 1] = ResetRequest

C22_Witness ==
    /\ ops = << "printRowBytesList" >>
    /\ Len(arg) = 2 * ChunkRows + 1
    /\ Cardinality(Headers) = 3
    /\ out[Len(out) - 1] = Header(1)

\* the height announced by the last chunk header of the observed stream
LastHeight == out[CHOOSE i \in Headers : \A j \in Headers : j <= i][7]

\* C23: ppa6 announces, in the last chunk of an image of N > 0 rows, the
\* height N mod 255, or 255 when N is a multiple of 255, and sends every one
\* of the N rows.
C23_Ppa6LastChunk ==
    /\ (ops = << "printImageRowBytesList" >> /\ Len(arg) > 0) =>
          /\ Headers # {}
          /\ LastHeight = IF Len(arg) % 255 = 0 THEN 255 ELSE Len(arg) % 255
          /\ Len(RowWrites) = Len(arg)
    /\ (ops = << "printImageBytes" >> /\ Len(arg) \div getRowBytes > 0) =>
          /\ Headers # {}
          /\ LastHeight = IF (Len(arg) \div getRowBytes) % 255 = 0 THEN 255
                          ELSE (Len(arg) \div getRowBytes) % 255
          /\ Len(RowWrites) = Len(arg) \div getRowBytes

C25_Reset17 ==
    ops = << "reset" >> =>
       /\ Len(out) = 1
       /\ Len(out[1]) = 17
       /\ SubSeq(out[1], 1, 4) = << 16, 255, 254, 1 >>
       /\ \A i \in 5..17 : out[1][i] = 0

\* C25: reset sends one command of 16 bytes, the prefix 10 ff fe 01 and
\* twelve zero bytes.
C25_Reset16 ==
    ops = << "reset" >> =>
       /\ Len(out) = 1
       /\ Len(out[1]) = 16
       /\ SubSeq(out[1], 1, 4) = << 16, 255, 254, 1 >>
       /\ \A i \in 5..16 : out[1][i] = 0

C25_Witness ==
    /\ ops = << "reset" >>
    /\ Len(out) = 1
    /\ Len(out[1]) = 16

\* C26 as stated: setPowerTimeout sends one command of 6 bytes whose last two
\* bytes are the clamped minutes, high byte first.
C26_Timeout6 ==
    ops = << "setPowerTimeout" >> =>
       /\ Len(out) = 1
       /\ Len(out[1]) = 6
       /\ out[1][5] * 256 + out[1][6]
             = IF arg[1] > 65520 THEN 65520 ELSE IF arg[1] < 1 THEN 1 ELSE arg[1]

\* C26: setPowerTimeout sends a command of 5 bytes, 10 ff 12 and then the
\* clamped minutes as two bytes, high byte first.
C26_Timeout5 ==
    ops = << "setPowerTimeout" >> =>
       /\ Len(out) = 1
       /\ Len(out[1]) = 5
       /\ SubSeq(out[1], 1, 3) = << 16, 255, 18 >>
       /\ out[1][4] \in 0..255
       /\ out[1][5] \in 0..255
       /\ out[1][4] * 256 + out[1][5]
             = IF arg[1] > 65520 THEN 65520 ELSE IF arg[1] < 1 THEN 1 ELSE arg[1]

C26_Witness ==
    /\ ops = << "setPowerTimeout" >>
    /\ arg = << 300 >>
    /\ out = << << 16, 255, 18, 1, 44 >> >>

\* C27: is_safe_ascii(text) is true exactly when filter_ascii leaves the text
\* unchanged.
C27_SafeIffUnfiltered ==
    ops = << "is_safe_ascii" >> =>
       ((ret = "True") <=> (filter_ascii(arg) = arg))

\* the stream position of the reset that opens chunk k (from 1): every
\* chunk before it is full and takes a reset, a header and 255 rows
ChunkStart(k) == (k - 1) * 257 + 1

\* the number of rows of chunk k of an image of n rows
ChunkHeight(n, k) == IF k * 255 <= n THEN 255 ELSE n - (k - 1) * 255

\* C31: peripage printRowBytesList sends, for each chunk in turn and with
\* nothing in between, one reset, one header 1d 76 30 00 rowBytes 00 height
\* 00, then exactly height rows (the rows of the image in their order); the
\* reset of the next chunk directly follows the last row of the chunk before.
C31_ChunkOrder ==
    ops = << "printRowBytesList" >> =>
       LET n == Len(arg)
           chunks == (n + 254) \div 255
       IN /\ Len(out) = n + 2 * chunks
          /\ \A k \in 1..chunks :
                /\ out[ChunkStart(k)] = ResetRequest
                /\ out[ChunkStart(k) + 1]
                      = << 29, 118, 48, 0, getRowBytes, 0, ChunkHeight(n, k), 0 >>
                /\ \A j \in 1..ChunkHeight(n, k) :
                      out[ChunkStart(k) + 1 + j] = Padded(arg[(k - 1) * 255 + j])

C31_Witness ==
    /\ ops = << "printRowBytesList" >>
    /\ Len(arg) = 256
    /\ out[257] = Padded(arg[255])
    /\ out[258] = ResetRequest
    /\ out[260] = Padded(arg[256])
    /\ Len(out) = 260

\* the characters a text keeps: codes 32..126 and the line feed, in order
Kept(text) == SelectSeq(text, LAMBDA c : c \in 32..126 \/ c = 10)

\* the number of line feeds of a text
LineFeeds(s) == Cardinality({i \in 1..Len(s) : s[i] = 10})

\* C32: when the pending line followed by the filtered text is not empty and
\* holds only spaces and line feeds, peripage printASCII sends one break(30)
\* for each line feed in it and nothing else, and leaves no pending line.
C32_WhiteOnlyBreaks ==
    (cls = "peripage" /\ ops = << "printASCII" >>) =>
       LET text == pre \o Kept(arg)
       IN (text # << >> /\ \A i \in 1..Len(text) : text[i] \in {32, 10})
             => /\ out = [i \in 1..LineFeeds(text) |-> << 27, 74, 30 >>]
                /\ print_buffer = << >>

C32_Witness ==
    /\ cls = "peripage"
    /\ ops = << "printASCII" >>
    /\ pre = << 32 >>
    /\ arg = << 10, 32, 10 >>
    /\ out = << << 27, 74, 30 >>, << 27, 74, 30 >> >>
    /\ print_buffer = << >>

\* C38: after peripage printlnASCII(text) returns, whatever the text and the
\* line pending before the call, no line is pending.
C38_PrintlnLeavesNothing ==
    (cls = "peripage" /\ ops = << "printlnASCII" >>) => print_buffer = << >>

C38_Witness ==
    /\ cls = "peripage"
    /\ ops = << "printlnASCII" >>
    /\ pre # << >>
    /\ IsText(arg)
    /\ ~Blank(pre \o arg)
    /\ Len(pre \o arg) % getRowCharacters # 0
    /\ out # << >>
    /\ out[Len(out)] = << 10 >>
    /\ print_buffer = << >>

\* C35: filter_ascii(text) is the subsequence of the characters of text with
\* a code in 32..126 or equal to the line feed, in their order, and filtering
\* its result again changes nothing.
C35_FilterRule ==
    ops = << "filter_ascii" >> =>
       /\ filtered = Kept(arg)
       /\ filter_ascii(filtered) = filtered

C35_Witness ==
    /\ ops = << "filter_ascii" >>
    /\ arg = << 127, 126, 10 >>
    /\ filtered = << 126, 10 >>

\* C34: in one call of service_handler at most one task completes (no task
\* completes in a call in which a task has completed already), and the
\* worker removes a task from the queue only as the last step of the call
\* (so at most one per call).
C34_OneTaskPerCycle ==
    [][\A t \in Threads :
          /\ Completes(t) => completed[t] = 0
          /\ (Steps(t) /\ pc[t] = "pop" /\ Len(events') < Len(events))
                => pc'[t] = "sleep"]_vars

\* a battery query (keep-alive) is sent by thread t in this step
Queries(t) ==
    \/ pc[t] = "ping" /\ ping_due /\ Steps(t)
    \/ pc[t] = "guard" /\ Steps(t)

\* C33: for a service started once, no battery query is sent while a task is
\* executing (between the step that starts it and the step that ends it).
C33_NoQueryInsideTask ==
    [][\A t \in Threads :
          Queries(t) => \A u \in Threads : pc[u] # "task" /\ pc'[u] # "task"]_vars

\* a task is executing while the keep-alive is due
C33_Witness ==
    \E t \in Threads : pc[t] = "task" /\ ping_due /\ conn[service] /\ begun[ctask[t]] = 1

\* C36: whenever the worker starts executing a task, the failure flag is
\* false.
C36_FlagClearAtTask ==
    [][\A t \in Threads : Begins(t) => ~is_service_failture]_vars

\* C37: the worker's look-up of the head task and its removal after the task
\* never raise, so clear_tasks() at any point does not send the worker
\* into the failure path (failure flag set, disconnect, reconnect).
C37_ClearHarmless ==
    [][\A t \in Threads :
          (pc[t] \in {"exec", "pop"} /\ Steps(t))
             => (pc'[t] # "except" /\ service_failture' = service_failture)]_vars

====
